---- MODULE Spec2Model ----
(***************************************************************************)
(* A model of package gocrypt (src/gocrypt.go): scrypt key derivation,     *)
(* AES-256-GCM sealing and opening of byte slices, and the file wrappers   *)
(* around them.                                                            *)
(*                                                                         *)
(* Byte slices are records [isNil, bytes]: Go tells a nil slice from an    *)
(* empty one (createHash tests salt == nil), so the model does too.        *)
(* The random source, the file system and the callers' arguments are the   *)
(* environment: each action draws them from small sets.                    *)
(*                                                                         *)
(* scrypt.Key, gcm.Seal and gcm.Open are library calls.  They are modelled *)
(* by small stand-ins over real bytes that keep what the callers rely on:  *)
(* the output lengths, determinism, Open inverting Seal under the same key *)
(* and nonce, and a tag that changes when the key, the nonce or the        *)
(* ciphertext changes.                                                     *)
(***************************************************************************)
EXTENDS Integers, Sequences, FiniteSets, TLC

VARIABLES fs, held, last, calls

vars == <<fs, held, last, calls>>

----------------------------------------------------------------------------
(* Bounds of the model *)

\* longest plaintext / file content enumerated
MaxLen == 2

\* file-API calls in one run
MaxCalls == 2

----------------------------------------------------------------------------
(* Program constants *)

SaltSize == 16
ScryptN == 32768
ScryptR == 8
ScryptP == 1
KeyLen == 32
NonceSize == 12
TagSize == 16
BlockSize == 16

\* []byte("some password"), the literal handed to scrypt.Key
SomePassword == <<115, 111, 109, 101, 32, 112, 97, 115, 115, 119, 111, 114, 100>>

----------------------------------------------------------------------------
(* Go values *)

NoErr == "nil"

Slice(bs) == [isNil |-> FALSE, bytes |-> bs]

NilSlice == [isNil |-> TRUE, bytes |-> <<>>]

At(s, i) == IF i \in 1..Len(s) THEN s[i] ELSE 0

RECURSIVE SumTo(_, _)
SumTo(s, n) == IF n = 0 THEN 0 ELSE SumTo(s, n - 1) + (2 * n + 1) * s[n]

RECURSIVE IsPow2(_)
IsPow2(n) == IF n = 1 THEN TRUE ELSE IF n < 1 \/ n % 2 = 1 THEN FALSE ELSE IsPow2(n \div 2)

----------------------------------------------------------------------------
(* The random source.  One read is described by how many bytes the source  *)
(* delivers before it fails (got) and by the stream it delivers (seed).    *)

RandByte(seed, i) == (seed + 29 * (i - 1)) % 256

\* io.ReadFull(rand.Reader, b) on b = make([]byte, n): the bytes of b
\* afterwards, and the error
ReadFull(n, rnd) ==
    [b   |-> [i \in 1..n |-> IF i <= rnd.got THEN RandByte(rnd.seed, i) ELSE 0],
     err |-> IF rnd.got >= n THEN NoErr
             ELSE IF rnd.got = 0 THEN "EOF" ELSE "unexpected EOF"]

genSalt(nByte, rnd) ==
    LET r == ReadFull(nByte, rnd)
    IN  IF r.err # NoErr
        THEN [salt |-> NilSlice, err |-> r.err]
        ELSE [salt |-> Slice(r.b), err |-> NoErr]

----------------------------------------------------------------------------
(* Library stand-ins *)

\* scrypt.Key(password, salt, N, r, p, keyLen): rejects bad cost parameters;
\* otherwise keyLen bytes fixed by (password, salt)
scryptKey(password, salt, N, r, p, keyLen) ==
    IF N <= 1 \/ ~IsPow2(N)
    THEN [dk |-> <<>>, err |-> "scrypt: N must be > 1 and a power of 2"]
    ELSE IF r * p >= 1073741824
    THEN [dk |-> <<>>, err |-> "scrypt: parameters are too large"]
    ELSE [dk  |-> [i \in 1..keyLen |->
                     IF i <= SaltSize
                     THEN (At(salt, i) + At(password, i) + i) % 256
                     ELSE (3 * At(password, i - SaltSize) + 7 * Len(salt)
                             + Len(password) + i) % 256],
          err |-> NoErr]

\* aes.NewCipher(key)
aesNewCipher(key) ==
    IF Len(key) \in {16, 24, 32}
    THEN [key |-> key, blockSize |-> BlockSize, err |-> NoErr]
    ELSE [key |-> key, blockSize |-> 0, err |-> "crypto/aes: invalid key size"]

\* cipher.NewGCM(block)
cipherNewGCM(block) ==
    IF block.blockSize = BlockSize
    THEN [key |-> block.key, nonceSize |-> NonceSize, err |-> NoErr]
    ELSE [key |-> block.key, nonceSize |-> 0,
          err |-> "cipher: NewGCM requires 128-bit block cipher"]

KeyStream(key, nonce, i) ==
    (key[((i - 1) % Len(key)) + 1] + nonce[((i - 1) % Len(nonce)) + 1] + i) % 256

gcmTag(key, nonce, ct) ==
    [j \in 1..TagSize |->
        (key[j] + 3 * key[j + TagSize] + 5 * nonce[((j - 1) % Len(nonce)) + 1]
           + (2 * j + 1) * SumTo(ct, Len(ct)) + j) % 256]

\* gcm.Seal(dst, nonce, plaintext, nil): dst || ciphertext || tag
gcmSeal(gcm, dst, nonce, plaintext) ==
    LET ct == [i \in 1..Len(plaintext) |->
                 (plaintext[i] + KeyStream(gcm.key, nonce, i)) % 256]
    IN  dst \o ct \o gcmTag(gcm.key, nonce, ct)

\* gcm.Open(nil, nonce, ciphertext, nil)
gcmOpen(gcm, nonce, ciphertext) ==
    IF Len(ciphertext) < TagSize
    THEN [plaintext |-> NilSlice, err |-> "cipher: message authentication failed"]
    ELSE LET n   == Len(ciphertext) - TagSize
             ct  == SubSeq(ciphertext, 1, n)
             tag == SubSeq(ciphertext, n + 1, Len(ciphertext))
         IN  IF tag # gcmTag(gcm.key, nonce, ct)
             THEN [plaintext |-> NilSlice,
                   err |-> "cipher: message authentication failed"]
             ELSE [plaintext |-> Slice([i \in 1..n |->
                                   (ct[i] + 256 - KeyStream(gcm.key, nonce, i)) % 256]),
                   err |-> NoErr]

----------------------------------------------------------------------------
(* The in-memory API *)

\* createHash(salt, pass); rnd is what the random source does if it is read
createHash(salt, pass, rnd) ==
    LET s == IF salt.isNil THEN genSalt(SaltSize, rnd).salt ELSE salt
        k == scryptKey(SomePassword, s.bytes, ScryptN, ScryptR, ScryptP, KeyLen)
    IN  [salt |-> s, hash |-> k.dk, err |-> k.err]

\* Encrypt(data, pass); rnd.salt and rnd.nonce are the two random reads
Encrypt(data, pass, rnd) ==
    LET h     == createHash(NilSlice, pass, rnd.salt)
        block == aesNewCipher(h.hash)
        gcm   == cipherNewGCM(block)
        nonce == ReadFull(gcm.nonceSize, rnd.nonce).b
    IN  IF h.err # NoErr THEN [blob |-> NilSlice, salt |-> NilSlice, err |-> h.err]
        ELSE IF block.err # NoErr
        THEN [blob |-> NilSlice, salt |-> NilSlice, err |-> block.err]
        ELSE IF gcm.err # NoErr
        THEN [blob |-> NilSlice, salt |-> NilSlice, err |-> gcm.err]
        ELSE [blob |-> Slice(gcmSeal(gcm, nonce, nonce, data.bytes)),
              salt |-> h.salt, err |-> NoErr]

\* Decrypt with the error of gcm.Open dropped: whatever the ciphertext
\* decrypts to is returned
Decrypt_OpenErrorDropped(data, salt, pass, rnd) ==
    LET h     == createHash(salt, pass, rnd)
        block == aesNewCipher(h.hash)
        gcm   == cipherNewGCM(block)
        n     == gcm.nonceSize
        nonce == SubSeq(data.bytes, 1, n)
        m     == Len(data.bytes) - n - TagSize
    IN  IF h.err # NoErr
        THEN [plaintext |-> NilSlice, err |-> h.err, panicked |-> FALSE]
        ELSE IF block.err # NoErr
        THEN [plaintext |-> NilSlice, err |-> block.err, panicked |-> FALSE]
        ELSE IF gcm.err # NoErr
        THEN [plaintext |-> NilSlice, err |-> gcm.err, panicked |-> FALSE]
        ELSE IF Len(data.bytes) < n
        THEN [plaintext |-> NilSlice, err |-> NoErr, panicked |-> TRUE]
        ELSE [plaintext |->
                Slice([i \in 1..(IF m > 0 THEN m ELSE 0) |->
                         (data.bytes[n + i] + 256 - KeyStream(gcm.key, nonce, i)) % 256]),
              err |-> NoErr, panicked |-> FALSE]

\* Decrypt(data, salt, pass); panicked: the slice expressions of line 122
\* are out of range
Decrypt(data, salt, pass, rnd) ==
    LET h     == createHash(salt, pass, rnd)
        block == aesNewCipher(h.hash)
        gcm   == cipherNewGCM(block)
        n     == gcm.nonceSize
    IN  IF h.err # NoErr
        THEN [plaintext |-> NilSlice, err |-> h.err, panicked |-> FALSE]
        ELSE IF block.err # NoErr
        THEN [plaintext |-> NilSlice, err |-> block.err, panicked |-> FALSE]
        ELSE IF gcm.err # NoErr
        THEN [plaintext |-> NilSlice, err |-> gcm.err, panicked |-> FALSE]
        ELSE IF Len(data.bytes) < n
        THEN [plaintext |-> NilSlice, err |-> NoErr, panicked |-> TRUE]
        ELSE LET o == gcmOpen(gcm, SubSeq(data.bytes, 1, n),
                              SubSeq(data.bytes, n + 1, Len(data.bytes)))
             IN  [plaintext |-> o.plaintext, err |-> o.err, panicked |-> FALSE]

----------------------------------------------------------------------------
(* The file system: a function from the paths of the files that exist to   *)
(* their contents.  A file can be created in a directory that exists.      *)

ExistingDirs == {"", "in/", "out/"}

FileNames == {"a.txt", "b.txt"}

Creatable ==
    {d \o n \o x : d \in ExistingDirs, n \in FileNames, x \in {"", ".3dfx", ".salt"}}
        \cup {"c.3dfx"}

\* ioutil.ReadFile(path): a non-nil slice, or nil and an error
ReadFile(f, path) ==
    IF path \in DOMAIN f
    THEN [data |-> Slice(f[path]), err |-> NoErr]
    ELSE [data |-> NilSlice, err |-> "open: no such file or directory"]

\* os.Create(path): the file exists and is empty afterwards, or an error
\* and a nil *os.File
Create(f, path) ==
    IF path \in Creatable
    THEN [fs |-> (path :> <<>>) @@ f, ok |-> TRUE, err |-> NoErr]
    ELSE [fs |-> f, ok |-> FALSE, err |-> "open: no such file or directory"]

\* x.Write(b) on the file Create returned; on a nil *os.File it writes
\* nothing, and its error is dropped by every caller
Write(c, path, b) ==
    IF c.ok THEN (path :> b.bytes) @@ c.fs ELSE c.fs

\* the first error among errs (in program order) that is not nil
FirstErr(errs) ==
    IF \A i \in 1..Len(errs) : errs[i] = NoErr THEN NoErr
    ELSE errs[CHOOSE i \in 1..Len(errs) :
                 errs[i] # NoErr /\ \A j \in 1..(i - 1) : errs[j] = NoErr]

----------------------------------------------------------------------------
(* The file API.  Each operator gives the file system after the call (fs), *)
(* what the call returns (err, salt, plaintext), whether it panicked, the  *)
(* first I/O error it met (ioErr) and whether it called Encrypt or Decrypt  *)
(* after an I/O error (carriedOn).                                         *)

EncryptToFile(f, file, to, data, passphrase, rnd) ==
    LET c == Create(f, file)
        e == Encrypt(data, passphrase, rnd)
    IN  IF c.err # NoErr
        THEN [fs |-> f, salt |-> NilSlice, err |-> c.err, panicked |-> FALSE,
              ioErr |-> c.err, carriedOn |-> FALSE]
        ELSE IF e.err # NoErr
        THEN [fs |-> c.fs, salt |-> NilSlice, err |-> e.err, panicked |-> FALSE,
              ioErr |-> NoErr, carriedOn |-> FALSE]
        ELSE [fs |-> Write(c, file, e.blob), salt |-> e.salt, err |-> NoErr,
              panicked |-> FALSE, ioErr |-> NoErr, carriedOn |-> FALSE]

DecryptFromFile(f, file, salt, passphrase, rnd) ==
    LET r == ReadFile(f, file)
        d == Decrypt(r.data, salt, passphrase, rnd)
    IN  [fs |-> f,
         plaintext |-> IF d.panicked \/ d.err # NoErr THEN NilSlice ELSE d.plaintext,
         err |-> d.err, panicked |-> d.panicked,
         ioErr |-> r.err, carriedOn |-> r.err # NoErr]

EncryptFile(f, file, from, to, passphrase, rnd) ==
    LET r      == ReadFile(f, from \o file)
        toFile == IF to # "" THEN to \o file ELSE file
        xf     == Create(f, toFile \o ".3dfx")
        e      == Encrypt(r.data, passphrase, rnd)
        f1     == Write(xf, toFile \o ".3dfx", e.blob)
        sf     == Create(f1, toFile \o ".salt")
    IN  IF r.err # NoErr
        THEN [fs |-> f, err |-> r.err, panicked |-> FALSE,
              ioErr |-> r.err, carriedOn |-> FALSE]
        ELSE IF to # ""
        THEN [fs |-> f, err |-> r.err, panicked |-> FALSE,
              ioErr |-> NoErr, carriedOn |-> FALSE]
        ELSE IF xf.err # NoErr
        THEN [fs |-> f, err |-> xf.err, panicked |-> FALSE,
              ioErr |-> xf.err, carriedOn |-> FALSE]
        ELSE IF e.err # NoErr
        THEN [fs |-> xf.fs, err |-> e.err, panicked |-> FALSE,
              ioErr |-> NoErr, carriedOn |-> FALSE]
        ELSE IF sf.err # NoErr
        THEN [fs |-> f1, err |-> sf.err, panicked |-> FALSE,
              ioErr |-> sf.err, carriedOn |-> FALSE]
        ELSE [fs |-> Write(sf, toFile \o ".salt", e.salt), err |-> NoErr,
              panicked |-> FALSE, ioErr |-> NoErr, carriedOn |-> FALSE]

DecryptFile(f, file, from, to, passphrase, rnd) ==
    LET data   == ReadFile(f, from \o file \o ".3dfx")
        salt   == ReadFile(f, from \o file \o ".salt")
        toFile == IF to # "" THEN to \o file ELSE file
        xf     == Create(f, toFile)
        d      == Decrypt(data.data, salt.data, passphrase, rnd)
        io     == FirstErr(<<data.err, salt.err, xf.err>>)
    IN  IF d.panicked
        THEN [fs |-> xf.fs, err |-> NoErr, panicked |-> TRUE,
              ioErr |-> io, carriedOn |-> io # NoErr]
        ELSE IF d.err # NoErr
        THEN [fs |-> xf.fs, err |-> d.err, panicked |-> FALSE,
              ioErr |-> io, carriedOn |-> io # NoErr]
        ELSE [fs |-> Write(xf, toFile, d.plaintext), err |-> NoErr,
              panicked |-> FALSE, ioErr |-> io, carriedOn |-> io # NoErr]

----------------------------------------------------------------------------
(* The environment of the in-memory API *)

\* "Hello World" and "hello world"
Messages ==
    {<<72, 101, 108, 108, 111, 32, 87, 111, 114, 108, 100>>,
     <<104, 101, 108, 108, 111, 32, 119, 111, 114, 108, 100>>}

\* the plaintexts enumerated: the messages cut to at most MaxLen bytes
Plaintexts == {SubSeq(m, 1, n) : m \in Messages, n \in 0..MaxLen}

\* "pass1" and "pass2"
Passphrases == {<<112, 97, 115, 115, 49>>, <<112, 97, 115, 115, 50>>}

RandSeeds == {7, 163}

\* how many bytes a failing read of the random source delivers
ShortReads == {5}

RandReads(n) ==
    {[got |-> n, seed |-> s] : s \in RandSeeds}
        \cup {[got |-> g, seed |-> 7] : g \in {k \in ShortReads : k < n}}

\* the bits a tampering caller flips
FlipBits == {0, 7}

FlipBit(b, k) == IF (b \div (2 ^ k)) % 2 = 1 THEN b - 2 ^ k ELSE b + 2 ^ k

\* the slices that differ from s in one bit (of the bits in bits)
Flips(s, bits) ==
    {Slice([s.bytes EXCEPT ![i] = FlipBit(@, k)]) : i \in 1..Len(s.bytes), k \in bits}

\* b is a with exactly one bit flipped
OneBitApart(a, b) ==
    /\ ~a.isNil /\ ~b.isNil
    /\ Len(a.bytes) = Len(b.bytes)
    /\ \E i \in 1..Len(a.bytes) :
          /\ \E k \in 0..7 : b.bytes[i] = FlipBit(a.bytes[i], k)
          /\ \A j \in 1..Len(a.bytes) : j # i => a.bytes[j] = b.bytes[j]

\* the slices shorter than n bytes cut from s, and the nil slice
Shorts(s, n) ==
    {NilSlice} \cup {Slice(SubSeq(s.bytes, 1, m)) : m \in 0..(n - 1)}

Nothing == [op |-> "none"]

NothingHeld ==
    [valid |-> FALSE, data |-> NilSlice, pass |-> <<>>, blob |-> NilSlice,
     salt |-> NilSlice]

Init ==
    /\ fs = <<>>
    /\ held = NothingHeld
    /\ last = Nothing
    /\ calls = 0

\* a caller that holds nothing encrypts data under pass and keeps what
\* Encrypt returned
CallEncrypt ==
    /\ ~held.valid
    /\ \E data \in Plaintexts, pass \in Passphrases,
          rs \in RandReads(SaltSize), rn \in RandReads(NonceSize) :
            LET e == Encrypt(Slice(data), pass, [salt |-> rs, nonce |-> rn])
            IN  /\ last' = [op |-> "Encrypt", data |-> Slice(data), pass |-> pass,
                            blob |-> e.blob, salt |-> e.salt, err |-> e.err,
                            nonce |-> ReadFull(NonceSize, rn).b,
                            saltReadErr |-> ReadFull(SaltSize, rs).err,
                            nonceReadErr |-> ReadFull(NonceSize, rn).err]
                /\ held' = IF e.err = NoErr
                           THEN [valid |-> TRUE, data |-> Slice(data), pass |-> pass,
                                 blob |-> e.blob, salt |-> e.salt]
                           ELSE held
    /\ UNCHANGED <<fs, calls>>

\* the (blob, salt) pairs a caller holding (blob, salt) may hand to Decrypt:
\* the pair itself, the pair with one bit of one of them flipped, the blob
\* with another salt, and a blob shorter than the nonce with any of the salts
DecryptArgs(blob, salt) ==
    LET salts == {salt, NilSlice, Slice(<<>>)}
    IN  ({blob} \X (salts \cup Flips(salt, FlipBits)))
            \cup (Flips(blob, FlipBits) \X {salt})
            \cup (Shorts(blob, NonceSize) \X salts)

\* what the random source may do during Decrypt(.., salt, ..): it is read
\* only by createHash, and only for a nil salt
DecryptRand(salt) ==
    IF salt.isNil THEN RandReads(SaltSize) ELSE {[got |-> 0, seed |-> 7]}

DecryptCall(data, salt, pass, rnd) ==
    [op |-> "Decrypt", data |-> data, salt |-> salt, pass |-> pass,
     res |-> Decrypt(data, salt, pass, rnd),
     key |-> createHash(salt, pass, rnd).hash,
     calls |-> 1]

\* the caller decrypts what Encrypt just returned to it, or a variation
CallDecrypt ==
    /\ held.valid
    /\ last.op = "Encrypt"
    /\ \E a \in DecryptArgs(held.blob, held.salt), pass \in Passphrases :
        \E rnd \in DecryptRand(a[2]) :
            last' = DecryptCall(a[1], a[2], pass, rnd)
    /\ UNCHANGED <<fs, held, calls>>

\* the caller repeats the call it just made, with the same arguments
RepeatDecrypt ==
    /\ last.op = "Decrypt"
    /\ last.calls = 1
    /\ \E rnd \in DecryptRand(last.salt) :
            last' = [DecryptCall(last.data, last.salt, last.pass, rnd)
                        EXCEPT !.calls = 2] @@ [first |-> last.res]
    /\ UNCHANGED <<fs, held, calls>>

\* the caller drops what it holds; its next call starts afresh
Forget ==
    /\ held.valid
    /\ held' = NothingHeld
    /\ last' = Nothing
    /\ UNCHANGED <<fs, calls>>

Next ==
    \/ CallEncrypt
    \/ CallDecrypt
    \/ RepeatDecrypt
    \/ Forget

Spec == Init /\ [][Next]_vars

----------------------------------------------------------------------------
(* The environment of the file API *)

Froms == {"", "in/"}

Tos == {"", "out/", "nodir/"}

\* what out/a.txt holds before any call
OldContents == <<111, 108, 100>>

InitFile ==
    /\ \E c \in Plaintexts :
          fs = ("a.txt" :> c) @@ ("in/a.txt" :> c) @@ ("out/a.txt" :> OldContents)
    /\ held = NothingHeld
    /\ last = Nothing
    /\ calls = 0

FileCall(op, file, from, to, pass, r) ==
    [op |-> op, file |-> file, from |-> from, to |-> to, pass |-> pass,
     err |-> r.err, panicked |-> r.panicked, ioErr |-> r.ioErr,
     carriedOn |-> r.carriedOn, before |-> fs]

\* a run is one caller's session: it encrypts first, if at all, and then
\* decrypts
CallEncryptFile ==
    /\ calls < MaxCalls
    /\ last.op = "none"
    /\ \E file \in FileNames, from \in Froms, to \in Tos, pass \in Passphrases,
          rs \in RandReads(SaltSize), rn \in RandReads(NonceSize) :
            LET r == EncryptFile(fs, file, from, to, pass, [salt |-> rs, nonce |-> rn])
            IN  /\ fs' = r.fs
                /\ last' = FileCall("EncryptFile", file, from, to, pass, r)
    /\ calls' = calls + 1
    /\ UNCHANGED held

CallDecryptFile ==
    /\ calls < MaxCalls
    /\ \E file \in FileNames, from \in Froms, to \in Tos, pass \in Passphrases :
        \E rnd \in DecryptRand(ReadFile(fs, from \o file \o ".salt").data) :
            LET r == DecryptFile(fs, file, from, to, pass, rnd)
            IN  /\ fs' = r.fs
                /\ last' = FileCall("DecryptFile", file, from, to, pass, r)
    /\ calls' = calls + 1
    /\ UNCHANGED held

CallEncryptToFile ==
    /\ calls < MaxCalls
    /\ last.op = "none"
    /\ \E file \in {"c.3dfx", "nodir/c.3dfx"}, to \in {"out/"}, data \in Plaintexts,
          pass \in Passphrases,
          rs \in RandReads(SaltSize), rn \in RandReads(NonceSize) :
            LET r == EncryptToFile(fs, file, to, Slice(data), pass,
                                   [salt |-> rs, nonce |-> rn])
            IN  /\ fs' = r.fs
                /\ last' = FileCall("EncryptToFile", file, "", to, pass, r)
                /\ held' = IF r.err = NoErr
                           THEN [valid |-> TRUE, data |-> Slice(data), pass |-> pass,
                                 blob |-> NilSlice, salt |-> r.salt]
                           ELSE held
    /\ calls' = calls + 1

CallDecryptFromFile ==
    /\ calls < MaxCalls
    /\ \E file \in {"c.3dfx", "b.txt"}, salt \in {held.salt, NilSlice},
          pass \in Passphrases :
        \E rnd \in DecryptRand(salt) :
            LET r == DecryptFromFile(fs, file, salt, pass, rnd)
            IN  /\ fs' = r.fs
                /\ last' = FileCall("DecryptFromFile", file, "", "", pass, r)
                             @@ [plaintext |-> r.plaintext]
    /\ calls' = calls + 1
    /\ UNCHANGED held

\* something outside the program flips the lowest bit of the first or of
\* the last byte of a file the program wrote
Corrupt ==
    /\ calls < MaxCalls
    /\ last.op \in {"EncryptFile", "EncryptToFile"}
    /\ \E path \in {"a.txt.3dfx", "a.txt.salt", "c.3dfx"} \cap DOMAIN fs :
          /\ fs[path] # <<>>
          /\ \E i \in {1, Len(fs[path])} :
                fs' = (path :> [fs[path] EXCEPT ![i] = FlipBit(@, 0)]) @@ fs
    /\ last' = [op |-> "Corrupt"]
    /\ UNCHANGED <<held, calls>>

NextFile ==
    \/ CallEncryptFile
    \/ CallDecryptFile
    \/ CallEncryptToFile
    \/ CallDecryptFromFile
    \/ Corrupt

SpecFile == InitFile /\ [][NextFile]_vars

----------------------------------------------------------------------------
(* Claims about the in-memory API, checked under Spec *)

\* the last call was Decrypt of exactly what the caller holds
DecryptsHeld ==
    /\ last.op = "Decrypt"
    /\ last.data = held.blob
    /\ last.salt = held.salt

\* the last call was Decrypt of what the caller holds with one bit flipped,
\* in the blob or in the salt
DecryptsTampered ==
    /\ last.op = "Decrypt"
    /\ \/ OneBitApart(held.blob, last.data) /\ last.salt = held.salt
       \/ last.data = held.blob /\ OneBitApart(held.salt, last.salt)

\* C1: round trip: Decrypt of the (blob, salt) a successful Encrypt(P, W)
\* returned, under W, returns (P, nil)
C1_RoundTrip ==
    (DecryptsHeld /\ last.pass = held.pass)
        => /\ ~last.res.panicked
           /\ last.res.err = NoErr
           /\ last.res.plaintext.bytes = held.data.bytes

\* C2: wrong passphrase: Decrypt of the (blob, salt) of Encrypt(P, W1) under
\* W2 # W1 fails and returns no plaintext
C2_WrongPassphrase ==
    (DecryptsHeld /\ last.pass # held.pass)
        => /\ ~last.res.panicked
           /\ last.res.err # NoErr
           /\ last.res.plaintext.isNil

\* C3: blob too short: Decrypt of a blob shorter than the nonce returns an
\* error and does not crash
C3_BlobTooShort ==
    (last.op = "Decrypt" /\ Len(last.data.bytes) < NonceSize)
        => /\ ~last.res.panicked
           /\ last.res.err # NoErr

\* C4: tamper detection and all-or-nothing: with one bit of the blob or of
\* the salt flipped, Decrypt under W returns an error; whenever Decrypt
\* returns an error its plaintext is nil; and on the held or the tampered
\* pair it returns exactly P or (nil, error)
C4_TamperAllOrNothing ==
    /\ (DecryptsTampered /\ last.pass = held.pass)
            => (~last.res.panicked /\ last.res.err # NoErr)
    /\ (last.op = "Decrypt" /\ last.res.err # NoErr)
            => last.res.plaintext.isNil
    /\ ((DecryptsTampered \/ DecryptsHeld) /\ last.pass = held.pass)
            => /\ ~last.res.panicked
               /\ \/ last.res.err = NoErr
                        /\ last.res.plaintext.bytes = held.data.bytes
                  \/ last.res.err # NoErr /\ last.res.plaintext.isNil

\* C4 witness: Decrypt has refused a blob with one bit flipped
C4_Witness ==
    /\ DecryptsTampered
    /\ last.pass = held.pass
    /\ last.data # held.blob
    /\ Len(held.data.bytes) > 0
    /\ last.res.err # NoErr
    /\ last.res.plaintext.isNil

\* C5: a failed read of the random source is surfaced: Encrypt then returns
\* an error and no blob
C5_RandomFailureSurfaced ==
    (last.op = "Encrypt" /\ (last.saltReadErr # NoErr \/ last.nonceReadErr # NoErr))
        => (last.err # NoErr /\ last.blob.isNil)

\* C6: output layout: a successful Encrypt(P, W) returns nonce || sealed
\* payload of 12 + len(P) + 16 bytes and a salt of 16 bytes
C6_OutputLayout ==
    (last.op = "Encrypt" /\ last.err = NoErr)
        => /\ Len(last.blob.bytes) = 12 + Len(last.data.bytes) + 16
           /\ SubSeq(last.blob.bytes, 1, 12) = last.nonce
           /\ SubSeq(last.blob.bytes, 13, Len(last.blob.bytes))
                = gcmSeal([key |-> scryptKey(SomePassword, last.salt.bytes,
                                             ScryptN, ScryptR, ScryptP, KeyLen).dk],
                          <<>>, last.nonce, last.data.bytes)
           /\ Len(last.salt.bytes) = 16

\* C9: Decrypt derives its key from the caller's salt alone and is
\* deterministic: the key is scrypt of that salt, and a repeated call returns
\* what the first returned
C9_DecryptDeterministic ==
    last.op = "Decrypt"
        => /\ last.key = scryptKey(SomePassword, last.salt.bytes,
                                   ScryptN, ScryptR, ScryptP, KeyLen).dk
           /\ last.calls = 2 => last.res = last.first

----------------------------------------------------------------------------
(* Claims about the file API, checked under SpecFile *)

FileOps == {"EncryptFile", "DecryptFile", "EncryptToFile", "DecryptFromFile"}

\* C7: when EncryptFile(file, from, to, pass) returns nil, <to><file>.3dfx
\* and <to><file>.salt exist and a following DecryptFile on them writes
\* back the contents of the input file
C7_EncryptFileRoundTrip ==
    (last.op = "EncryptFile" /\ last.err = NoErr /\ ~last.panicked)
        => LET toFile == last.to \o last.file
           IN  /\ (toFile \o ".3dfx") \in DOMAIN fs
               /\ (toFile \o ".salt") \in DOMAIN fs
               /\ \A rnd \in RandReads(SaltSize) :
                    LET d == DecryptFile(fs, last.file, last.to, "out/", last.pass, rnd)
                    IN  /\ ~d.panicked
                        /\ d.err = NoErr
                        /\ d.fs["out/" \o last.file] = last.before[last.from \o last.file]

\* C8: an I/O error (a read or a create that failed) is what the call
\* returns; the call neither carries on to Encrypt or Decrypt nor crashes
C8_IOErrorsPropagated ==
    (last.op \in FileOps /\ last.ioErr # NoErr)
        => /\ ~last.panicked
           /\ last.err = last.ioErr
           /\ ~last.carriedOn

\* C10: whenever DecryptFile returns an error from Decrypt, the destination
\* file exists and is empty
C10_DestEmptyOnDecryptError ==
    (last.op = "DecryptFile" /\ ~last.panicked /\ last.err # NoErr)
        => LET dest == IF last.to # "" THEN last.to \o last.file ELSE last.file
           IN  /\ dest \in DOMAIN fs
               /\ fs[dest] = <<>>

====
